---- MODULE Spec2Model ----
(***************************************************************************)
(* Model of src/main.py: the QR label sheet generator.                     *)
(*                                                                         *)
(* generate_child_health_report reads a CSV table, validates its header,   *)
(* and for every row saves a QR image to a temporary file in the working   *)
(* directory, draws it and up to three text lines on a letter-size canvas, *)
(* removes the file and advances a cursor column-major over the page.      *)
(*                                                                         *)
(* Lengths are whole points (1/72 inch).  The line spacings of the model   *)
(* are multiples of 5, so 2.2 * line_spacing is a whole number too.        *)
(* Each host session s runs the script; the working directory (files) is   *)
(* the one thing all sessions of the process share.                        *)
(***************************************************************************)
EXTENDS Integers, Sequences, FiniteSets, TLC

VARIABLES
    fieldnames,  \* [s] reader.fieldnames of the uploaded file
    records,     \* [s] the rows csv.DictReader yields, in file order
    params,      \* [s] layout_params
    fields,      \* [s] fields_to_display, a list in selection order
    pc,          \* [s] position of the session in the script
    err,         \* [s] the exception that ended the call, "none" if none
    i,           \* [s] number of rows taken from the reader so far
    x,           \* [s] cursor x
    y,           \* [s] cursor y
    page,        \* [s] number of c.showPage() calls so far
    ops,         \* [s] canvas operations issued so far, in order
    files,       \* paths present in the working directory (temporary QR images)
    prev         \* [s] outcome of the session's previous run of the script

vars == <<fieldnames, records, params, fields, pc, err, i, x, y, page, ops, files, prev>>

-----------------------------------------------------------------------------
(* Bounds of the model *)

MaxRecords == 3

(* Program constants: reportlab.lib.pagesizes.letter *)

PageWidth == 612

PageHeight == 792

Sessions == {1, 2}

-----------------------------------------------------------------------------
(* Inputs *)

RecordPool ==
    { [project |-> "P1", ID |-> "A1", lid |-> "L1"],
      [project |-> "P2", ID |-> "A2", lid |-> "L2"] }

RECURSIVE SeqsUpTo(_, _)
SeqsUpTo(S, n) ==
    IF n = 0 THEN { <<>> }
    ELSE LET shorter == SeqsUpTo(S, n - 1)
         IN  shorter \cup { Append(q, e) : q \in { r \in shorter : Len(r) = n - 1 }, e \in S }

RecordSeqs == SeqsUpTo(RecordPool, MaxRecords)

\* reader.fieldnames: None for an empty file, else the list of the header row
HeaderChoices ==
    { [none |-> TRUE,  names |-> {}],
      [none |-> FALSE, names |-> {}],
      [none |-> FALSE, names |-> {"project", "ID"}],
      [none |-> FALSE, names |-> {"project", "ID", "lid"}],
      [none |-> FALSE, names |-> {"project", "ID", "lid", "site"}] }

Margins == {142}

QrSizes == {142}

TextMargins == {3}

LineSpacings == {10, 15}

HorizontalSpacings == {28, 142}

VerticalSpacings == {142, 300}

set_layout_parameters(margin, text_margin, qr_img_size, line_spacing, horizontal_spacing, vertical_spacing) ==
    [ margin |-> margin,
      text_margin |-> text_margin,
      qr_img_size |-> qr_img_size,
      line_spacing |-> line_spacing,
      horizontal_spacing |-> horizontal_spacing,
      vertical_spacing |-> vertical_spacing ]

\* a margin so wide that y_start lies below it: every row wraps
WideMargin == set_layout_parameters(400, 3, 142, 10, 28, 142)

ParamChoices ==
    { set_layout_parameters(m, t, q, l, h, v) :
        m \in Margins, t \in TextMargins, q \in QrSizes,
        l \in LineSpacings, h \in HorizontalSpacings, v \in VerticalSpacings }
    \cup { WideMargin }

FieldNames == {"Project", "ID", "LID"}

\* the multiselect returns the chosen options as a list without repetition
FieldChoices ==
    { f \in SeqsUpTo(FieldNames, 3) :
        \A a, b \in DOMAIN f : a # b => f[a] # f[b] }

-----------------------------------------------------------------------------
(* Pure parts of generate_child_health_report *)

required_headers == {"project", "ID", "lid"}

\* 'Project' in fields_to_display
Selected(name, f) == \E k \in DOMAIN f : f[k] = name

QrPath(lid_value) == lid_value \o "_qrcode.png"

XStart(p) == p.margin

YStart(p) == PageHeight - p.margin - p.qr_img_size

ColumnWrapAtZero(yy, p) == yy < 0

\* line 62: reached the bottom of the column
ColumnWrap(yy, p) == yy < p.margin

RightEdgeIgnoresSize(xx, p) == xx > PageWidth - p.margin

\* line 66: reached the right edge of the page
RightEdge(xx, p) == xx + p.qr_img_size > PageWidth - p.margin

NextColumnOverlaps(xx, p) == xx + p.qr_img_size

\* line 64
NextColumn(xx, p) == xx + p.qr_img_size + p.horizontal_spacing

PageBreakKeepsX(xx, p) == xx

\* line 68
PageBreakX(xx, p) == XStart(p)

\* lines 62-68: where the row is placed, and whether a page break came first
Cursor(xx, yy, p) ==
    IF ColumnWrap(yy, p)
    THEN LET nx == NextColumn(xx, p)
         IN  IF RightEdge(nx, p)
             THEN [x |-> PageBreakX(nx, p), y |-> YStart(p), showPage |-> TRUE]
             ELSE [x |-> nx, y |-> YStart(p), showPage |-> FALSE]
    ELSE [x |-> xx, y |-> yy, showPage |-> FALSE]

Op(kind, row, pg, xx, yy, data) ==
    [kind |-> kind, row |-> row, page |-> pg, x |-> xx, y |-> yy, data |-> data]

TextLinesFixedSlots(row, rec, pg, xx, yy, p, f) ==
    LET text_x == xx + p.qr_img_size + p.text_margin
        text_y == yy + (22 * p.line_spacing) \div 10
    IN  (IF Selected("Project", f)
         THEN << Op("text", row, pg, text_x, text_y, "Project: " \o rec.project) >>
         ELSE <<>>)
        \o
        (IF Selected("ID", f)
         THEN << Op("text", row, pg, text_x, text_y - p.line_spacing, "ID: " \o rec.ID) >>
         ELSE <<>>)
        \o
        (IF Selected("LID", f)
         THEN << Op("text", row, pg, text_x, text_y - 2 * p.line_spacing, "LID: " \o rec.lid) >>
         ELSE <<>>)

\* lines 82-95: the drawString calls of one row
TextLines(row, rec, pg, xx, yy, p, f) ==
    LET text_x == xx + p.qr_img_size + p.text_margin
        text_y0 == yy + (22 * p.line_spacing) \div 10
        l1 == IF Selected("Project", f)
              THEN << Op("text", row, pg, text_x, text_y0, "Project: " \o rec.project) >>
              ELSE <<>>
        text_y1 == IF Selected("Project", f) THEN text_y0 - p.line_spacing ELSE text_y0
        l2 == IF Selected("ID", f)
              THEN << Op("text", row, pg, text_x, text_y1, "ID: " \o rec.ID) >>
              ELSE <<>>
        text_y2 == IF Selected("ID", f) THEN text_y1 - p.line_spacing ELSE text_y1
        l3 == IF Selected("LID", f)
              THEN << Op("text", row, pg, text_x, text_y2, "LID: " \o rec.lid) >>
              ELSE <<>>
    IN  l1 \o l2 \o l3

AdvanceByLinesDrawn(s) ==
    y[s] - (params[s].qr_img_size + params[s].vertical_spacing
            + Cardinality({ n \in FieldNames : Selected(n, fields[s]) }) * params[s].line_spacing)

\* line 99
Advance(s) ==
    y[s] - (params[s].qr_img_size + params[s].vertical_spacing + 3 * params[s].line_spacing)

-----------------------------------------------------------------------------
(* Initial states *)

QrOps(o) ==
    LET IsQr(e) == e.kind = "qr" IN SelectSeq(o, IsQr)

TextOps(o) ==
    LET IsText(e) == e.kind = "text" IN SelectSeq(o, IsText)

\* what is kept of a finished run: its outcome, its page breaks, its QR
\* placements and the number of text lines it drew
NoPrev == [valid |-> FALSE, result |-> "none", pages |-> 0, qrs |-> <<>>, lines |-> 0]

Fresh ==
    /\ pc = [s \in Sessions |-> "start"]
    /\ err = [s \in Sessions |-> "none"]
    /\ i = [s \in Sessions |-> 0]
    /\ x = [s \in Sessions |-> 0]
    /\ y = [s \in Sessions |-> 0]
    /\ page = [s \in Sessions |-> 0]
    /\ ops = [s \in Sessions |-> <<>>]
    /\ files = {}
    /\ prev = [s \in Sessions |-> NoPrev]

\* a session that has uploaded nothing: its script never reaches line 127
IdleHeader == [none |-> FALSE, names |-> required_headers]

IdleParams == set_layout_parameters(142, 3, 142, 10, 28, 142)

\* one host session
Init ==
    /\ Fresh
    /\ \E fn \in HeaderChoices, recs \in RecordSeqs, p \in ParamChoices, f \in FieldChoices :
          /\ fieldnames = [s \in Sessions |-> IF s = 1 THEN fn ELSE IdleHeader]
          /\ records = [s \in Sessions |-> IF s = 1 THEN recs ELSE <<>>]
          /\ params = [s \in Sessions |-> IF s = 1 THEN p ELSE IdleParams]
          /\ fields = [s \in Sessions |-> IF s = 1 THEN f ELSE <<>>]

\* two host sessions of the same process, each with its own upload
InitConc ==
    /\ Fresh
    /\ fieldnames = [s \in Sessions |-> IdleHeader]
    /\ records \in [Sessions -> RecordSeqs]
    /\ params = [s \in Sessions |-> IdleParams]
    /\ fields \in [Sessions -> { <<"Project", "LID">>, <<"LID">> }]

-----------------------------------------------------------------------------
(* The script, one action per step of a session *)

Fail(s, e) ==
    /\ pc' = [pc EXCEPT ![s] = "failed"]
    /\ err' = [err EXCEPT ![s] = e]

\* lines 36-59: create the canvas, read the header, check it, set the cursor.
\* required_headers.issubset(None) raises TypeError.
Validate(s) ==
    /\ pc[s] = "start"
    /\ IF fieldnames[s].none
       THEN Fail(s, "TypeError") /\ UNCHANGED <<x, y>>
       ELSE IF ~(required_headers \subseteq fieldnames[s].names)
       THEN Fail(s, "ValueError") /\ UNCHANGED <<x, y>>
       ELSE /\ pc' = [pc EXCEPT ![s] = "loop"]
            /\ x' = [x EXCEPT ![s] = XStart(params[s])]
            /\ y' = [y EXCEPT ![s] = YStart(params[s])]
            /\ UNCHANGED err
    /\ UNCHANGED <<fieldnames, records, params, fields, i, page, ops, files, prev>>

\* lines 61-72: take the next row; column wrap and page break
NextRecord(s) ==
    /\ pc[s] = "loop"
    /\ i[s] < Len(records[s])
    /\ LET c == Cursor(x[s], y[s], params[s])
       IN  /\ x' = [x EXCEPT ![s] = c.x]
           /\ y' = [y EXCEPT ![s] = c.y]
           /\ page' = [page EXCEPT ![s] = IF c.showPage THEN @ + 1 ELSE @]
           /\ ops' = [ops EXCEPT ![s] =
                        IF c.showPage
                        THEN Append(@, Op("showPage", i[s] + 1, page[s], 0, 0, ""))
                        ELSE @]
    /\ i' = [i EXCEPT ![s] = @ + 1]
    /\ pc' = [pc EXCEPT ![s] = "save"]
    /\ UNCHANGED <<fieldnames, records, params, fields, err, files, prev>>

\* lines 74-76: encode lid and save the image under "<lid>_qrcode.png"
SaveQR(s) ==
    /\ pc[s] = "save"
    /\ files' = files \cup { QrPath(records[s][i[s]].lid) }
    /\ pc' = [pc EXCEPT ![s] = "draw"]
    /\ UNCHANGED <<fieldnames, records, params, fields, err, i, x, y, page, ops, prev>>

DrawQREncodesID(s) ==
    /\ pc[s] = "draw"
    /\ ops' = [ops EXCEPT ![s] =
                 Append(@, Op("qr", i[s], page[s], x[s], y[s], records[s][i[s]].ID))]
    /\ pc' = [pc EXCEPT ![s] = "text"]
    /\ UNCHANGED <<fieldnames, records, params, fields, err, i, x, y, page, files, prev>>

\* line 79: drawImage opens the file at the path
DrawQR(s) ==
    /\ pc[s] = "draw"
    /\ IF QrPath(records[s][i[s]].lid) \in files
       THEN /\ ops' = [ops EXCEPT ![s] =
                         Append(@, Op("qr", i[s], page[s], x[s], y[s], records[s][i[s]].lid))]
            /\ pc' = [pc EXCEPT ![s] = "text"]
            /\ UNCHANGED err
       ELSE Fail(s, "OSError") /\ UNCHANGED ops
    /\ UNCHANGED <<fieldnames, records, params, fields, i, x, y, page, files, prev>>

\* lines 82-95
DrawText(s) ==
    /\ pc[s] = "text"
    /\ ops' = [ops EXCEPT ![s] =
                 @ \o TextLines(i[s], records[s][i[s]], page[s], x[s], y[s], params[s], fields[s])]
    /\ pc' = [pc EXCEPT ![s] = "remove"]
    /\ UNCHANGED <<fieldnames, records, params, fields, err, i, x, y, page, files, prev>>

RemoveQRLeaks(s) ==
    /\ pc[s] = "remove"
    /\ y' = [y EXCEPT ![s] = Advance(s)]
    /\ pc' = [pc EXCEPT ![s] = "loop"]
    /\ UNCHANGED <<fieldnames, records, params, fields, err, i, x, page, ops, files, prev>>

\* lines 97-99: os.remove raises FileNotFoundError when the path is gone
RemoveQR(s) ==
    /\ pc[s] = "remove"
    /\ IF QrPath(records[s][i[s]].lid) \in files
       THEN /\ files' = files \ { QrPath(records[s][i[s]].lid) }
            /\ y' = [y EXCEPT ![s] = Advance(s)]
            /\ pc' = [pc EXCEPT ![s] = "loop"]
            /\ UNCHANGED err
       ELSE Fail(s, "FileNotFoundError") /\ UNCHANGED <<files, y>>
    /\ UNCHANGED <<fieldnames, records, params, fields, i, x, page, ops, prev>>

\* lines 101-103 and 129-134: the reader is exhausted; save, return, offer the download
Finish(s) ==
    /\ pc[s] = "loop"
    /\ i[s] = Len(records[s])
    /\ pc' = [pc EXCEPT ![s] = "done"]
    /\ UNCHANGED <<fieldnames, records, params, fields, err, i, x, y, page, ops, files, prev>>

\* lines 109 and 125-127: the user changes the field selection and the host
\* runs the script again on the same upload with the same sliders
Rerun(s) ==
    /\ pc[s] \in {"done", "failed"}
    /\ \E f \in FieldChoices : fields' = [fields EXCEPT ![s] = f]
    /\ prev' = [prev EXCEPT ![s] =
                  [valid |-> TRUE, result |-> pc[s], pages |-> page[s],
                   qrs |-> QrOps(ops[s]), lines |-> Len(TextOps(ops[s]))]]
    /\ pc' = [pc EXCEPT ![s] = "start"]
    /\ err' = [err EXCEPT ![s] = "none"]
    /\ i' = [i EXCEPT ![s] = 0]
    /\ x' = [x EXCEPT ![s] = 0]
    /\ y' = [y EXCEPT ![s] = 0]
    /\ page' = [page EXCEPT ![s] = 0]
    /\ ops' = [ops EXCEPT ![s] = <<>>]
    /\ UNCHANGED <<fieldnames, records, params, files>>

Next ==
    \/ Validate(1)
    \/ NextRecord(1)
    \/ SaveQR(1)
    \/ DrawQR(1)
    \/ DrawText(1)
    \/ RemoveQR(1)
    \/ Finish(1)
    \/ Rerun(1)

Spec == Init /\ [][Next]_vars

NextConc ==
    \E s \in Sessions :
        \/ Validate(s)
        \/ NextRecord(s)
        \/ SaveQR(s)
        \/ DrawQR(s)
        \/ DrawText(s)
        \/ RemoveQR(s)
        \/ Finish(s)

SpecConc == InitConc /\ [][NextConc]_vars

-----------------------------------------------------------------------------
(* Properties *)

HeadersMissing(s) ==
    fieldnames[s].none \/ ~(required_headers \subseteq fieldnames[s].names)

TextOpsOfRow(o, r) ==
    LET IsTextOfRow(e) == e.kind = "text" /\ e.row = r IN SelectSeq(o, IsTextOfRow)

\* the selected fields in display order
DrawnFields(f) ==
    LET IsSelected(n) == Selected(n, f) IN SelectSeq(<<"Project", "ID", "LID">>, IsSelected)

Label(n, rec) ==
    CASE n = "Project" -> "Project: " \o rec.project
      [] n = "ID" -> "ID: " \o rec.ID
      [] n = "LID" -> "LID: " \o rec.lid

\* C1: every table whose header lacks one of project, ID, lid (an empty file
\* with no header row included) fails with ValueError before any row is
\* processed: no page break, no QR or text placed, no temporary file, no
\* document returned.
C1_MissingHeadersRaiseValueError ==
    \A s \in Sessions :
        (pc[s] # "start" /\ HeadersMissing(s)) =>
            /\ pc[s] = "failed"
            /\ err[s] = "ValueError"
            /\ i[s] = 0
            /\ page[s] = 0
            /\ ops[s] = <<>>
            /\ files = {}

\* C2: a successful render places exactly one QR per record: as many QR
\* placements as records, the k-th encoding the lid of the k-th record, and
\* every text line after the QR of its record and before the QR of the next.
C2_OneQrPerRecordInOrder ==
    \A s \in Sessions :
        pc[s] = "done" =>
            LET o == ops[s]
                q == QrOps(o)
            IN  /\ Len(q) = Len(records[s])
                /\ \A k \in DOMAIN q : q[k].row = k /\ q[k].data = records[s][k].lid
                /\ \A a, b \in DOMAIN o : a < b => o[a].row <= o[b].row
                /\ \A a \in DOMAIN o :
                       o[a].kind = "text" =>
                           \E b \in 1..(a - 1) : o[b].kind = "qr" /\ o[b].row = o[a].row

C2_Witness ==
    /\ pc[1] = "done"
    /\ Len(records[1]) = MaxRecords
    /\ records[1][1].lid # records[1][2].lid
    /\ Len(TextOps(ops[1])) = 2 * MaxRecords

\* C3: a page break is emitted exactly when, on reaching a record, the column
\* wrap fires and the advanced x satisfies x + qrSize > pageWidth - margin;
\* the record then goes to a new page at x = x_start with y as it was before
\* the page-width check (y_start).  No other step emits a page break.
C3_PageBreakExactlyAtRightEdge ==
    [][\A s \in Sessions :
          LET p == params[s]
              reached == pc[s] = "loop" /\ pc'[s] = "save"
              wraps == y[s] < p.margin
              nx == x[s] + p.qr_img_size + p.horizontal_spacing
              edge == nx + p.qr_img_size > PageWidth - p.margin
              broke == Len(ops'[s]) = Len(ops[s]) + 1
                       /\ ops'[s][Len(ops'[s])].kind = "showPage"
          IN  /\ broke <=> (reached /\ wraps /\ edge)
              /\ page'[s] = page[s] + 1 <=> broke
              /\ broke => /\ x'[s] = p.margin
                          /\ y'[s] = PageHeight - p.margin - p.qr_img_size
      ]_vars

C3_Witness ==
    /\ params[1].margin = 142
    /\ pc[1] = "text"
    /\ page[1] = 1
    /\ \E k \in DOMAIN ops[1] :
           /\ ops[1][k].kind = "qr"
           /\ ops[1][k].page = 1
           /\ ops[1][k].x = params[1].margin
    /\ \E k \in DOMAIN ops[1] :
           /\ ops[1][k].kind = "qr"
           /\ ops[1][k].page = 0
           /\ ops[1][k].x > params[1].margin

\* C4: a record reached with y < margin is not placed in the current column:
\* y is reset to y_start, x advances by qrSize + horizontalSpacing and, when
\* that column fits, the record is placed there on the same page.  A record
\* reached with y >= margin is placed at the current (x, y), same column and
\* page.
C4_ColumnWrap ==
    [][\A s \in Sessions :
          LET p == params[s]
              nx == x[s] + p.qr_img_size + p.horizontal_spacing
              ystart == PageHeight - p.margin - p.qr_img_size
          IN  /\ (pc[s] = "loop" /\ pc'[s] = "save") =>
                     IF y[s] < p.margin
                     THEN /\ y'[s] = ystart
                          /\ nx + p.qr_img_size <= PageWidth - p.margin =>
                                 x'[s] = nx /\ page'[s] = page[s]
                     ELSE x'[s] = x[s] /\ y'[s] = y[s] /\ page'[s] = page[s]
              /\ (pc[s] = "draw" /\ pc'[s] = "text") =>
                     /\ Len(ops'[s]) = Len(ops[s]) + 1
                     /\ LET q == ops'[s][Len(ops'[s])]
                        IN  /\ q.kind = "qr"
                            /\ q.x = x[s] /\ q.y = y[s] /\ q.page = page[s]
                     /\ x'[s] = x[s] /\ y'[s] = y[s] /\ page'[s] = page[s]
      ]_vars

C4_Witness ==
    \E a, b \in DOMAIN ops[1] :
        /\ a < b
        /\ ops[1][a].kind = "qr" /\ ops[1][b].kind = "qr"
        /\ ops[1][a].x = ops[1][b].x /\ ops[1][a].y > ops[1][b].y
        /\ \E c \in DOMAIN ops[1] :
               /\ b < c
               /\ ops[1][c].kind = "qr"
               /\ ops[1][c].page = ops[1][b].page
               /\ ops[1][c].x = ops[1][b].x + params[1].qr_img_size + params[1].horizontal_spacing
               /\ ops[1][c].y = YStart(params[1])

\* C5: the text lines of a record placed at (x, y) are exactly those of the
\* selected fields, in the order Project, ID, LID whatever the order of the
\* selection, all at x + qrSize + text_margin, the k-th drawn at
\* y + 2.2*lineSpacing - (k-1)*lineSpacing.
C5_FieldSelection ==
    \A s \in Sessions :
        \A k \in DOMAIN ops[s] :
            LET q == ops[s][k]
            IN  (q.kind = "qr" /\ (q.row < i[s] \/ pc[s] \in {"remove", "loop", "done"})) =>
                    LET t == TextOpsOfRow(ops[s], q.row)
                        d == DrawnFields(fields[s])
                        p == params[s]
                    IN  /\ Len(t) = Len(d)
                        /\ \A j \in DOMAIN d :
                               /\ t[j].data = Label(d[j], records[s][q.row])
                               /\ t[j].page = q.page
                               /\ t[j].x = q.x + p.qr_img_size + p.text_margin
                               /\ 10 * t[j].y = 10 * q.y + 22 * p.line_spacing
                                                - 10 * (j - 1) * p.line_spacing

C5_Witness ==
    /\ fields[1] = <<"LID", "ID">>
    /\ pc[1] = "done"
    /\ Len(records[1]) >= 2
    /\ Len(TextOps(ops[1])) = 2 * Len(records[1])

C5_WitnessLidOnly ==
    /\ fields[1] = <<"LID">>
    /\ pc[1] = "done"
    /\ Len(records[1]) >= 2
    /\ \A k \in DOMAIN ops[1] :
           ops[1][k].kind = "text" =>
               /\ ops[1][k].data = "LID: " \o records[1][ops[1][k].row].lid
               /\ 10 * ops[1][k].y = 10 * ops[1][k - 1].y + 22 * params[1].line_spacing

\* C6: the vertical advance per record does not depend on the field
\* selection: two runs over the same records and layout parameters with any
\* two field selections place the QR images at the same (page, x, y) and
\* emit the same number of page breaks.
C6_PlacementIndependentOfFields ==
    \A s \in Sessions :
        (pc[s] = "done" /\ prev[s].valid) =>
            /\ prev[s].result = "done"
            /\ QrOps(ops[s]) = prev[s].qrs
            /\ page[s] = prev[s].pages

C6_Witness ==
    /\ pc[1] = "done"
    /\ prev[1].valid
    /\ prev[1].lines = 0
    /\ Len(TextOps(ops[1])) = 3 * MaxRecords
    /\ page[1] >= 1

\* C7: the temporary QR image belongs to one iteration: it exists only
\* between its creation and its removal in that iteration, so none exists at
\* the start of an iteration or when render returns, and never more than
\* one, also when records share a lid.
C7_TempFileOwnedByIteration ==
    /\ Cardinality(files) <= 1
    /\ pc[1] \in {"start", "loop", "save", "done", "failed"} => files = {}
    /\ pc[1] \in {"draw", "text", "remove"} => files = { QrPath(records[1][i[1]].lid) }

C7_Witness ==
    /\ pc[1] = "loop"
    /\ i[1] >= 2
    /\ records[1][1].lid = records[1][2].lid
    /\ files = {}

\* C8: render calls are independent: run one after the other or interleaved,
\* each call succeeds or fails exactly as it would alone; no step of one call
\* makes another call fail.
C8_CallsIndependent ==
    \A s \in Sessions :
        pc[s] = "failed" => (HeadersMissing(s) /\ err[s] \in {"ValueError", "TypeError"})

\* C9: the first label placed on every page, the first page and every page
\* started by a page break, is at (x_start, y_start).
C9_FirstLabelOfPageAtStart ==
    \A s \in Sessions :
        \A k \in DOMAIN ops[s] :
            LET q == ops[s][k]
            IN  (/\ q.kind = "qr"
                 /\ ~\E j \in 1..(k - 1) : ops[s][j].kind = "qr" /\ ops[s][j].page = q.page) =>
                    /\ q.x = params[s].margin
                    /\ q.y = PageHeight - params[s].margin - params[s].qr_img_size

C9_Witness ==
    /\ params[1].margin = 142
    /\ pc[1] = "done"
    /\ page[1] >= 1
    /\ ops[1][Len(ops[1])].page = page[1]
    /\ ops[1][Len(ops[1])].kind = "text"

C9_WitnessWideMargin ==
    /\ params[1] = WideMargin
    /\ pc[1] = "done"
    /\ page[1] = MaxRecords

WithinPage(p) ==
    /\ p.qr_img_size > 0
    /\ p.text_margin >= 0 /\ p.line_spacing >= 0
    /\ p.horizontal_spacing >= 0 /\ p.vertical_spacing >= 0
    /\ PageHeight - p.margin - p.qr_img_size >= p.margin
    /\ p.margin + p.qr_img_size <= PageWidth - p.margin

\* C10: with qrSize > 0, non-negative spacings, y_start >= margin and
\* x_start + qrSize <= pageWidth - margin, every QR image placed lies inside
\* the margins.
C10_QrInsideMargins ==
    \A s \in Sessions :
        WithinPage(params[s]) =>
            \A k \in DOMAIN ops[s] :
                LET q == ops[s][k]
                    p == params[s]
                IN  q.kind = "qr" =>
                        /\ p.margin <= q.y
                        /\ q.y <= PageHeight - p.margin - p.qr_img_size
                        /\ p.margin <= q.x
                        /\ q.x + p.qr_img_size <= PageWidth - p.margin

C10_Witness ==
    /\ WithinPage(params[1])
    /\ pc[1] = "done"
    /\ \E k \in DOMAIN ops[1] :
           ops[1][k].kind = "qr" /\ ops[1][k].x > params[1].margin
    /\ \E k \in DOMAIN ops[1] :
           ops[1][k].kind = "qr" /\ ops[1][k].y < YStart(params[1])

====
